---- MODULE Spec2Model ----
(***************************************************************************)
(* hybridBuffer (schneider.vip/hybridbuffer): a byte queue that lives in a *)
(* bytes.Buffer until a Write would push it above `threshold`, and then    *)
(* moves to a storage backend behind a middleware pipeline.                *)
(*                                                                         *)
(* Bytes are numbers 0..255.  The i-th byte ever handed to Write has the   *)
(* value i, so that loss, duplication and reordering are all visible.      *)
(* A stream is [store, layers]: the backend it was opened on (0 is nil)    *)
(* and the middlewares wrapped around it, outermost first.                 *)
(***************************************************************************)
EXTENDS Integers, Sequences, FiniteSets, TLC

\* ---- bounds of the model ----
MaxBytes == 3
MaxChunk == 2
MaxRead == 2
MaxThreshold == 2
MaxStores == 2

VARIABLES
    threshold,        \* hybridBuffer.threshold
    size,             \* hybridBuffer.size
    offset,           \* hybridBuffer.offset
    memoryBuffer,     \* hybridBuffer.memoryBuffer (Bytes(): all it was given, it is never read from)
    storageBackend,   \* hybridBuffer.storageBackend: index into stores, 0 is nil
    writeStream,      \* hybridBuffer.writeStream
    readStream,       \* hybridBuffer.readStream
    middlewares,      \* hybridBuffer.middlewares
    usingStorage,     \* hybridBuffer.usingStorage
    stores,           \* every backend storageProvider has returned, in order
    faulty,           \* environment: may backends and streams return errors
    handed,           \* number of bytes handed to Write so far
    appended,         \* bytes Write acknowledged, in call order, since the last Reset
    returned,         \* bytes Read and Bytes returned, in call order, since the last Reset
    readSeen,         \* a Read has been called
    writeAfterRead,   \* a non-empty Write was called after a Read
    drainWrite,       \* a non-empty Write was called while the read stream was open
    offsetAtSpill,    \* offset when usingStorage last became true (-1: never)
    eof,              \* the last call was a Read that returned io.EOF
    twin,             \* the same calls applied to a buffer that never spills
    writeTo           \* the WriteTo call in progress: where it is, its count and error

bufVars == <<threshold, size, offset, memoryBuffer, storageBackend, writeStream,
             readStream, middlewares, usingStorage, stores>>
obsVars == <<faulty, handed, appended, returned, readSeen, writeAfterRead,
             drainWrite, offsetAtSpill, eof>>
vars == <<bufVars, obsVars, twin, writeTo>>

\* ---- Go built-ins ----
Min(a, b) == IF a < b THEN a ELSE b
Max(a, b) == IF a > b THEN a ELSE b
Take(s, n) == SubSeq(s, 1, Min(n, Len(s)))
IsPrefix(p, s) == Len(p) <= Len(s) /\ SubSeq(s, 1, Len(p)) = p
Reverse(s) == [i \in 1..Len(s) |-> s[Len(s) + 1 - i]]

\* ---- middleware.Middleware: two lossless bytewise codecs that do not commute ----
Encode(m, x) == IF m = 1 THEN (x + 1) % 256 ELSE (x * 3) % 256
Decode(m, x) == IF m = 1 THEN (x + 255) % 256 ELSE (x * 171) % 256

\* A byte written to a wrapped writer passes the outermost layer first.
RECURSIVE EncodeThrough(_, _)
EncodeThrough(layers, x) ==
    IF layers = <<>> THEN x
    ELSE EncodeThrough(Tail(layers), Encode(Head(layers), x))

\* A byte read from a wrapped reader passes the innermost layer first.
RECURSIVE DecodeThrough(_, _)
DecodeThrough(layers, x) ==
    IF layers = <<>> THEN x
    ELSE Decode(Head(layers), DecodeThrough(Tail(layers), x))

Pipelines == {<<>>, <<1>>, <<1, 2>>}

\* ---- storage.Backend as the tests implement it (mockStorageBackend) ----
NewBackend ==
    [data |-> <<>>, writePos |-> 0, readPos |-> 0,
     createCalled |-> FALSE, openCalled |-> FALSE, removeCalled |-> FALSE]

BackendCreate(m) == [m EXCEPT !.createCalled = TRUE, !.writePos = 0]
BackendOpen(m) == [m EXCEPT !.openCalled = TRUE, !.readPos = 0]
BackendRemove(m) == [m EXCEPT !.removeCalled = TRUE, !.data = <<>>]

\* mockWriteCloser.Write: p lands at writePos, the slice is extended when short.
MockWrite(m, p) ==
    LET end == m.writePos + Len(p)
        newLen == Max(Len(m.data), end)
    IN [m EXCEPT
          !.data = [i \in 1..newLen |->
                      IF i > m.writePos /\ i <= end THEN p[i - m.writePos]
                      ELSE IF i <= Len(m.data) THEN m.data[i] ELSE 0],
          !.writePos = end]

\* mockReadCloser.Read into a slice of length n: [m, bytes, err].
MockRead(m, n) ==
    IF m.readPos >= Len(m.data)
    THEN [m |-> m, bytes |-> <<>>, err |-> "EOF"]
    ELSE LET toRead == Min(n, Len(m.data) - m.readPos)
             m2 == [m EXCEPT !.readPos = @ + toRead]
         IN [m |-> m2,
             bytes |-> SubSeq(m.data, m.readPos + 1, m.readPos + toRead),
             err |-> IF m2.readPos >= Len(m.data) THEN "EOF" ELSE "nil"]

\* ---- streams ----
NoStream == [store |-> 0, layers |-> <<>>]

\* What the environment does to the calls of one operation: nothing, or one
\* fault: Create fails, Open fails, or the stream accepts only `budget` more
\* bytes and then fails; or the release steps fail: closing the write stream,
\* closing the read stream, removing the store.
NoLimit == MaxBytes + MaxChunk + 1
NoFault ==
    [createErr |-> FALSE, openErr |-> FALSE, budget |-> NoLimit,
     closeWriteErr |-> FALSE, closeReadErr |-> FALSE, removeErr |-> FALSE]
WriteFaults ==
    {[NoFault EXCEPT !.createErr = TRUE],
     [NoFault EXCEPT !.budget = 0],
     [NoFault EXCEPT !.budget = 1]}
ReadFaults == {[NoFault EXCEPT !.openErr = TRUE]}
ReleaseFaults ==
    {[NoFault EXCEPT !.closeWriteErr = w, !.closeReadErr = r, !.removeErr = m] :
        w \in BOOLEAN, r \in BOOLEAN, m \in BOOLEAN} \ {NoFault}
Oracles(f, faults) == IF f THEN {NoFault} \cup faults ELSE {NoFault}

Event(op, s) ==
    [op |-> op, store |-> s,
     created |-> FALSE, wsLive |-> FALSE, spill |-> FALSE, ok |-> TRUE]

\* ---- hybridBuffer: each method as a function of the buffer b ----
\* b holds the fields of hybridBuffer, the backends (stores), the calls made so
\* far in this operation (calls), what the streams still accept (budget) and
\* which release steps fail (faults).

Log(b, e) == [b EXCEPT !.calls = Append(@, e)]

\* writeStream.Close(): the mock's writer and the wrappers hold no state.
CloseWriteStream(b) ==
    [Log(b, [Event("CloseWriter", b.writeStream.store) EXCEPT
                !.ok = ~b.faults.closeWriteErr])
        EXCEPT !.writeStream = NoStream]

CloseReadStream(b) ==
    [Log(b, [Event("CloseReader", b.readStream.store) EXCEPT
                !.ok = ~b.faults.closeReadErr])
        EXCEPT !.readStream = NoStream]

\* the loop of openWriteStream: each middleware wraps what the ones before it built
RECURSIVE WrapWriter(_, _, _)
WrapWriter(mws, i, layers) ==
    IF i > Len(mws) THEN layers
    ELSE WrapWriter(mws, i + 1, <<mws[i]>> \o layers)

\* a reader loop that nests each middleware inside the ones before it, so that
\* the last middleware ends up outermost
RECURSIVE WrapReaderLastOutermost(_, _, _)
WrapReaderLastOutermost(mws, i, layers) ==
    IF i < 1 THEN layers
    ELSE WrapReaderLastOutermost(mws, i - 1, layers \o <<mws[i]>>)

\* the loop of openReadStream: from the last middleware down to the first
RECURSIVE WrapReader(_, _, _)
WrapReader(mws, i, layers) ==
    IF i < 1 THEN layers
    ELSE WrapReader(mws, i - 1, <<mws[i]>> \o layers)

openWriteStream(b, o) ==
    IF b.writeStream.store # 0 THEN [b |-> b, err |-> "nil"]
    ELSE IF b.storageBackend = 0 THEN [b |-> b, err |-> "panic"]
    ELSE LET id == b.storageBackend
             ev == [Event("Create", id) EXCEPT !.ok = ~o.createErr,
                                               !.spill = b.usingStorage]
             b1 == Log([b EXCEPT !.stores[id].createCalled = TRUE], ev)
         IN IF o.createErr THEN [b |-> b1, err |-> "error"]
            ELSE [b |-> [b1 EXCEPT
                           !.stores[id] = BackendCreate(@),
                           !.writeStream =
                               [store |-> id,
                                layers |-> WrapWriter(b.middlewares, 1, <<>>)]],
                  err |-> "nil"]

openReadStream(b, o) ==
    IF b.readStream.store # 0 THEN [b |-> b, err |-> "nil"]
    ELSE IF b.storageBackend = 0 THEN [b |-> b, err |-> "panic"]
    ELSE LET id == b.storageBackend
             ev == [Event("Open", id) EXCEPT
                      !.ok = ~o.openErr,
                      !.created = b.stores[id].createCalled,
                      !.wsLive = (b.writeStream.store # 0),
                      !.spill = b.usingStorage]
             b1 == Log([b EXCEPT !.stores[id].openCalled = TRUE], ev)
         IN IF o.openErr THEN [b |-> b1, err |-> "error"]
            ELSE [b |-> [b1 EXCEPT
                           !.stores[id] = BackendOpen(@),
                           !.readStream =
                               [store |-> id,
                                layers |-> WrapReader(b.middlewares,
                                                      Len(b.middlewares), <<>>)]],
                  err |-> "nil"]

\* writeStream.Write(p): p passes the layers and lands in the backend; the
\* stream acknowledges what the budget allows and fails on the rest.
StreamWrite(b, p) ==
    LET ws == b.writeStream
        n == Min(Len(p), b.budget)
        enc == [i \in 1..n |-> EncodeThrough(ws.layers, p[i])]
        ev == [Event("Write", ws.store) EXCEPT !.ok = (n = Len(p))]
    IN [b |-> Log([b EXCEPT !.stores[ws.store] = MockWrite(@, enc),
                            !.budget = @ - n], ev),
        n |-> n,
        err |-> IF n = Len(p) THEN "nil" ELSE "error"]

\* readStream.Read(data[:n])
StreamRead(b, n) ==
    LET rs == b.readStream
        r == MockRead(b.stores[rs.store], n)
    IN [b |-> Log([b EXCEPT !.stores[rs.store] = r.m], Event("Read", rs.store)),
        bytes |-> [i \in 1..Len(r.bytes) |-> DecodeThrough(rs.layers, r.bytes[i])],
        err |-> r.err]

\* a flush that switches to the store without copying the memory prefix to it
flushToStorageDropsMemory(b, o) ==
    IF b.usingStorage THEN [b |-> b, err |-> "nil"]
    ELSE LET id == Len(b.stores) + 1
             b1 == Log([b EXCEPT !.stores = Append(@, NewBackend),
                                 !.storageBackend = id],
                       Event("Provider", id))
             w == openWriteStream(b1, o)
         IN IF w.err # "nil" THEN w
            ELSE [b |-> [w.b EXCEPT !.usingStorage = TRUE], err |-> "nil"]

\* a flush that switches to spill mode before the store has taken the prefix
flushToStorageSwitchesFirst(b, o) ==
    IF b.usingStorage THEN [b |-> b, err |-> "nil"]
    ELSE LET id == Len(b.stores) + 1
             b1 == Log([b EXCEPT !.stores = Append(@, NewBackend),
                                 !.storageBackend = id,
                                 !.usingStorage = TRUE],
                       Event("Provider", id))
             w == openWriteStream(b1, o)
         IN IF w.err # "nil" THEN w
            ELSE LET memData == w.b.memoryBuffer
                     x == IF Len(memData) > 0 THEN StreamWrite(w.b, memData)
                          ELSE [b |-> w.b, n |-> 0, err |-> "nil"]
                 IN [b |-> x.b, err |-> x.err]

\* flushToStorage(): provider, openWriteStream, copy of the memory prefix, switch
flushToStorage(b, o) ==
    IF b.usingStorage THEN [b |-> b, err |-> "nil"]
    ELSE LET id == Len(b.stores) + 1
             b1 == Log([b EXCEPT !.stores = Append(@, NewBackend),
                                 !.storageBackend = id],
                       Event("Provider", id))
             w == openWriteStream(b1, o)
         IN IF w.err # "nil" THEN w
            ELSE LET memData == w.b.memoryBuffer
                     x == IF Len(memData) > 0 THEN StreamWrite(w.b, memData)
                          ELSE [b |-> w.b, n |-> 0, err |-> "nil"]
                 IN IF x.err # "nil" THEN [b |-> x.b, err |-> x.err]
                    ELSE [b |-> [x.b EXCEPT !.usingStorage = TRUE], err |-> "nil"]

\* a Write that already spills when the data would fill the memory to exactly
\* the threshold
WriteSpillsAtThreshold(b, data, o) ==
    IF Len(data) = 0 THEN [b |-> b, n |-> 0, err |-> "nil"]
    ELSE LET f == IF ~b.usingStorage /\ Len(b.memoryBuffer) + Len(data) >= b.threshold
                  THEN flushToStorage(b, o)
                  ELSE [b |-> b, err |-> "nil"]
         IN IF f.err # "nil" THEN [b |-> f.b, n |-> 0, err |-> f.err]
            ELSE IF f.b.usingStorage
            THEN LET w == IF f.b.writeStream.store = 0 THEN openWriteStream(f.b, o)
                          ELSE [b |-> f.b, err |-> "nil"]
                 IN IF w.err # "nil" THEN [b |-> w.b, n |-> 0, err |-> w.err]
                    ELSE LET x == StreamWrite(w.b, data)
                         IN [b |-> [x.b EXCEPT !.size = IF x.err = "nil" THEN @ + x.n
                                                        ELSE @],
                             n |-> x.n, err |-> x.err]
            ELSE [b |-> [f.b EXCEPT !.memoryBuffer = @ \o data,
                                    !.size = @ + Len(data)],
                  n |-> Len(data), err |-> "nil"]

\* a Write without the early return for empty data
WriteWithoutEmptyCheck(b, data, o) ==
    LET f == IF ~b.usingStorage /\ Len(b.memoryBuffer) + Len(data) > b.threshold
             THEN flushToStorage(b, o)
             ELSE [b |-> b, err |-> "nil"]
    IN IF f.err # "nil" THEN [b |-> f.b, n |-> 0, err |-> f.err]
       ELSE IF f.b.usingStorage
       THEN LET w == IF f.b.writeStream.store = 0 THEN openWriteStream(f.b, o)
                     ELSE [b |-> f.b, err |-> "nil"]
            IN IF w.err # "nil" THEN [b |-> w.b, n |-> 0, err |-> w.err]
               ELSE LET x == StreamWrite(w.b, data)
                    IN [b |-> [x.b EXCEPT !.size = IF x.err = "nil" THEN @ + x.n
                                                   ELSE @],
                        n |-> x.n, err |-> x.err]
       ELSE [b |-> [f.b EXCEPT !.memoryBuffer = @ \o data,
                               !.size = @ + Len(data)],
             n |-> Len(data), err |-> "nil"]

\* a Write that, on a transition, appends its data to the memory buffer and
\* flushes the whole of it
WriteBuffersTrigger(b, data, o) ==
    IF Len(data) = 0 THEN [b |-> b, n |-> 0, err |-> "nil"]
    ELSE IF ~b.usingStorage /\ Len(b.memoryBuffer) + Len(data) > b.threshold
    THEN LET f == flushToStorage([b EXCEPT !.memoryBuffer = @ \o data], o)
         IN IF f.err # "nil" THEN [b |-> f.b, n |-> 0, err |-> f.err]
            ELSE [b |-> [f.b EXCEPT !.size = @ + Len(data)],
                  n |-> Len(data), err |-> "nil"]
    ELSE IF b.usingStorage
    THEN LET w == IF b.writeStream.store = 0 THEN openWriteStream(b, o)
                  ELSE [b |-> b, err |-> "nil"]
         IN IF w.err # "nil" THEN [b |-> w.b, n |-> 0, err |-> w.err]
            ELSE LET x == StreamWrite(w.b, data)
                 IN [b |-> [x.b EXCEPT !.size = IF x.err = "nil" THEN @ + x.n
                                                ELSE @],
                     n |-> x.n, err |-> x.err]
    ELSE [b |-> [b EXCEPT !.memoryBuffer = @ \o data, !.size = @ + Len(data)],
          n |-> Len(data), err |-> "nil"]

\* Write(data): [b, n, err]
Write(b, data, o) ==
    IF Len(data) = 0 THEN [b |-> b, n |-> 0, err |-> "nil"]
    ELSE LET f == IF ~b.usingStorage /\ Len(b.memoryBuffer) + Len(data) > b.threshold
                  THEN flushToStorage(b, o)
                  ELSE [b |-> b, err |-> "nil"]
         IN IF f.err # "nil" THEN [b |-> f.b, n |-> 0, err |-> f.err]
            ELSE IF f.b.usingStorage
            THEN LET w == IF f.b.writeStream.store = 0 THEN openWriteStream(f.b, o)
                          ELSE [b |-> f.b, err |-> "nil"]
                 IN IF w.err # "nil" THEN [b |-> w.b, n |-> 0, err |-> w.err]
                    ELSE LET x == StreamWrite(w.b, data)
                         IN [b |-> [x.b EXCEPT !.size = IF x.err = "nil" THEN @ + x.n
                                                        ELSE @],
                             n |-> x.n, err |-> x.err]
            ELSE [b |-> [f.b EXCEPT !.memoryBuffer = @ \o data,
                                    !.size = @ + Len(data)],
                  n |-> Len(data), err |-> "nil"]

\* Read(data) with len(data) = n: [b, bytes, err]
Read(b, n, o) ==
    IF b.offset >= b.size THEN [b |-> b, bytes |-> <<>>, err |-> "EOF"]
    ELSE LET b1 == IF b.writeStream.store # 0 THEN CloseWriteStream(b) ELSE b
             bytesToRead == Min(n, b.size - b.offset)
         IN IF b1.usingStorage
            THEN LET r == IF b1.readStream.store = 0 THEN openReadStream(b1, o)
                          ELSE [b |-> b1, err |-> "nil"]
                 IN IF r.err # "nil" THEN [b |-> r.b, bytes |-> <<>>, err |-> r.err]
                    ELSE LET x == StreamRead(r.b, bytesToRead)
                         IN [b |-> [x.b EXCEPT !.offset = @ + Len(x.bytes)],
                             bytes |-> x.bytes, err |-> x.err]
            ELSE LET memData == b1.memoryBuffer
                     endPos == Min(b1.offset + bytesToRead, Len(memData))
                     got == IF b1.offset < Len(memData)
                            THEN Take(SubSeq(memData, b1.offset + 1, endPos), n)
                            ELSE <<>>
                 IN [b |-> [b1 EXCEPT !.offset = @ + Len(got)],
                     bytes |-> got, err |-> "nil"]

\* a Reset that leaves the read position where it was
ResetKeepsOffset(b) ==
    LET b1 == IF b.writeStream.store # 0 THEN CloseWriteStream(b) ELSE b
        b2 == IF b1.readStream.store # 0 THEN CloseReadStream(b1) ELSE b1
        b3 == IF b2.storageBackend # 0
              THEN [Log(b2, [Event("Remove", b2.storageBackend) EXCEPT
                                !.ok = ~b2.faults.removeErr]) EXCEPT
                      !.stores[b2.storageBackend] = BackendRemove(@),
                      !.storageBackend = 0]
              ELSE b2
    IN [b3 EXCEPT !.memoryBuffer = <<>>, !.size = 0, !.usingStorage = FALSE]

\* Reset(): streams closed, store removed, fields back to their initial values;
\* the errors of the release steps are dropped
Reset(b) ==
    LET b1 == IF b.writeStream.store # 0 THEN CloseWriteStream(b) ELSE b
        b2 == IF b1.readStream.store # 0 THEN CloseReadStream(b1) ELSE b1
        b3 == IF b2.storageBackend # 0
              THEN [Log(b2, [Event("Remove", b2.storageBackend) EXCEPT
                                !.ok = ~b2.faults.removeErr]) EXCEPT
                      !.stores[b2.storageBackend] = BackendRemove(@),
                      !.storageBackend = 0]
              ELSE b2
    IN [b3 EXCEPT !.memoryBuffer = <<>>, !.size = 0, !.offset = 0,
                  !.usingStorage = FALSE]

\* a Close that also forgets how many bytes were appended
CloseClearsSize(b) ==
    LET b1 == IF b.writeStream.store # 0 THEN CloseWriteStream(b) ELSE b
        b2 == IF b1.readStream.store # 0 THEN CloseReadStream(b1) ELSE b1
        b3 == IF b2.storageBackend # 0
              THEN [Log(b2, [Event("Remove", b2.storageBackend) EXCEPT
                                !.ok = ~b2.faults.removeErr]) EXCEPT
                      !.stores[b2.storageBackend] = BackendRemove(@),
                      !.storageBackend = 0]
              ELSE b2
    IN [b |-> [b3 EXCEPT !.size = 0], err |-> "nil"]

\* a Close that gives up at the first release step that fails
CloseStopsAtFirstError(b) ==
    IF b.writeStream.store # 0 /\ b.faults.closeWriteErr
    THEN [b |-> CloseWriteStream(b), err |-> "closeWrite"]
    ELSE LET b1 == IF b.writeStream.store # 0 THEN CloseWriteStream(b) ELSE b
         IN IF b1.readStream.store # 0 /\ b.faults.closeReadErr
            THEN [b |-> CloseReadStream(b1), err |-> "closeRead"]
            ELSE LET b2 == IF b1.readStream.store # 0 THEN CloseReadStream(b1)
                           ELSE b1
                     b3 == IF b2.storageBackend # 0
                           THEN [Log(b2, [Event("Remove", b2.storageBackend) EXCEPT
                                             !.ok = ~b2.faults.removeErr]) EXCEPT
                                   !.stores[b2.storageBackend] = BackendRemove(@),
                                   !.storageBackend = 0]
                           ELSE b2
                 IN [b |-> b3,
                     err |-> IF b2.storageBackend # 0 /\ b.faults.removeErr
                             THEN "remove" ELSE "nil"]

\* a Close that keeps the handle of the store it removed
CloseKeepsStore(b) ==
    LET b1 == IF b.writeStream.store # 0 THEN CloseWriteStream(b) ELSE b
        b2 == IF b1.readStream.store # 0 THEN CloseReadStream(b1) ELSE b1
        b3 == IF b2.storageBackend # 0
              THEN [Log(b2, [Event("Remove", b2.storageBackend) EXCEPT
                                !.ok = ~b2.faults.removeErr]) EXCEPT
                      !.stores[b2.storageBackend] = BackendRemove(@)]
              ELSE b2
    IN [b |-> b3,
        err |-> IF b2.storageBackend # 0 /\ b.faults.removeErr THEN "remove"
                ELSE "nil"]

\* a Close that puts the buffer back into memory mode
CloseReturnsToMemory(b) ==
    LET b1 == IF b.writeStream.store # 0 THEN CloseWriteStream(b) ELSE b
        b2 == IF b1.readStream.store # 0 THEN CloseReadStream(b1) ELSE b1
        b3 == IF b2.storageBackend # 0
              THEN [Log(b2, [Event("Remove", b2.storageBackend) EXCEPT
                                !.ok = ~b2.faults.removeErr]) EXCEPT
                      !.stores[b2.storageBackend] = BackendRemove(@),
                      !.storageBackend = 0]
              ELSE b2
    IN [b |-> [b3 EXCEPT !.usingStorage = FALSE],
        err |-> IF b2.storageBackend # 0 /\ b.faults.removeErr THEN "remove"
                ELSE "nil"]

\* Close(): [b, err]; every release step is attempted, lastErr is overwritten
\* by each step that fails
Close(b) ==
    LET b1 == IF b.writeStream.store # 0 THEN CloseWriteStream(b) ELSE b
        b2 == IF b1.readStream.store # 0 THEN CloseReadStream(b1) ELSE b1
        b3 == IF b2.storageBackend # 0
              THEN [Log(b2, [Event("Remove", b2.storageBackend) EXCEPT
                                !.ok = ~b2.faults.removeErr]) EXCEPT
                      !.stores[b2.storageBackend] = BackendRemove(@),
                      !.storageBackend = 0]
              ELSE b2
        lastErr == IF b2.storageBackend # 0 /\ b.faults.removeErr THEN "remove"
                   ELSE IF b1.readStream.store # 0 /\ b.faults.closeReadErr
                   THEN "closeRead"
                   ELSE IF b.writeStream.store # 0 /\ b.faults.closeWriteErr
                   THEN "closeWrite"
                   ELSE "nil"
    IN [b |-> b3, err |-> lastErr]

\* Bytes(): [b, bytes, err]; err is "panic" when Len() is negative (make of a
\* negative length) or when the Read inside dereferences nil
Bytes(b, o) ==
    LET b1 == IF b.writeStream.store # 0 THEN CloseWriteStream(b) ELSE b
        remaining == b1.size - b1.offset
    IN IF remaining = 0 THEN [b |-> b1, bytes |-> <<>>, err |-> "nil"]
       ELSE IF remaining < 0 THEN [b |-> b1, bytes |-> <<>>, err |-> "panic"]
       ELSE LET r == Read(b1, remaining, o)
            IN [b |-> r.b, bytes |-> r.bytes,
                err |-> IF r.err = "panic" THEN "panic" ELSE "nil"]

\* an Available that does not look at the mode
AvailableIgnoresMode(b) == b.threshold - Len(b.memoryBuffer)

\* Available()
Available(b) ==
    IF b.usingStorage THEN 0 ELSE b.threshold - Len(b.memoryBuffer)

\* Grow(n): [b, err]; only the capacity of the memory buffer changes, and
\* bytes.Buffer.Grow panics on a negative n
Grow(b, n) ==
    IF ~b.usingStorage /\ n < 0 THEN [b |-> b, err |-> "panic"]
    ELSE [b |-> b, err |-> "nil"]

\* a Truncate that checks only the lower end of the range
TruncateUncheckedAbove(b, n, o) ==
    IF n < 0 THEN [b |-> b, err |-> "panic"]
    ELSE IF n = 0 THEN [b |-> Reset(b), err |-> "nil"]
    ELSE LET oldOffset == b.offset
             b1 == [b EXCEPT !.offset = 0]
             b2 == IF b1.readStream.store # 0 THEN CloseReadStream(b1) ELSE b1
             r == Read(b2, n, o)
             actualRead == Len(r.bytes)
         IN IF r.err = "panic" THEN [b |-> r.b, err |-> "panic"]
            ELSE LET w == Write(Reset(r.b), r.bytes, o)
                 IN IF w.err = "panic" THEN [b |-> w.b, err |-> "panic"]
                    ELSE [b |-> IF oldOffset < actualRead
                                THEN [w.b EXCEPT !.offset = oldOffset]
                                ELSE w.b,
                          err |-> "nil"]

\* Truncate(n): [b, err]
Truncate(b, n, o) ==
    IF n < 0 \/ n > b.size THEN [b |-> b, err |-> "panic"]
    ELSE IF n = 0 THEN [b |-> Reset(b), err |-> "nil"]
    ELSE LET oldOffset == b.offset
             b1 == [b EXCEPT !.offset = 0]
             b2 == IF b1.readStream.store # 0 THEN CloseReadStream(b1) ELSE b1
             r == Read(b2, n, o)
             actualRead == Len(r.bytes)
         IN IF r.err = "panic" THEN [b |-> r.b, err |-> "panic"]
            ELSE LET w == Write(Reset(r.b), r.bytes, o)
                 IN IF w.err = "panic" THEN [b |-> w.b, err |-> "panic"]
                    ELSE [b |-> IF oldOffset < actualRead
                                THEN [w.b EXCEPT !.offset = oldOffset]
                                ELSE w.b,
                          err |-> "nil"]

\* ---- the state machine ----
\* New(WithThreshold(t), WithMiddleware(p...), WithStorage(provider))
New(t, p) ==
    [threshold |-> t, size |-> 0, offset |-> 0, memoryBuffer |-> <<>>,
     storageBackend |-> 0, writeStream |-> NoStream, readStream |-> NoStream,
     middlewares |-> p, usingStorage |-> FALSE, stores |-> <<>>,
     calls |-> <<>>, budget |-> NoLimit, faults |-> NoFault]

\* the buffer as the variables hold it, at the start of a call
Cur(o) ==
    [threshold |-> threshold, size |-> size, offset |-> offset,
     memoryBuffer |-> memoryBuffer, storageBackend |-> storageBackend,
     writeStream |-> writeStream, readStream |-> readStream,
     middlewares |-> middlewares, usingStorage |-> usingStorage,
     stores |-> stores, calls |-> <<>>, budget |-> o.budget, faults |-> o]

\* the buffer as a call leaves it
Commit(b) ==
    /\ Len(b.stores) <= MaxStores
    /\ threshold' = b.threshold
    /\ size' = b.size
    /\ offset' = b.offset
    /\ memoryBuffer' = b.memoryBuffer
    /\ storageBackend' = b.storageBackend
    /\ writeStream' = b.writeStream
    /\ readStream' = b.readStream
    /\ middlewares' = b.middlewares
    /\ usingStorage' = b.usingStorage
    /\ stores' = b.stores

Fresh(b) == [b EXCEPT !.calls = <<>>, !.budget = NoLimit, !.faults = NoFault]

\* no WriteTo call is in progress
NoCall == [pc |-> "idle", n |-> 0, err |-> "nil", before |-> 0]

InitWith(faults) ==
    /\ threshold \in 1..MaxThreshold
    /\ middlewares \in Pipelines
    /\ size = 0
    /\ offset = 0
    /\ memoryBuffer = <<>>
    /\ storageBackend = 0
    /\ writeStream = NoStream
    /\ readStream = NoStream
    /\ usingStorage = FALSE
    /\ stores = <<>>
    /\ faulty \in faults
    /\ handed = 0
    /\ appended = <<>>
    /\ returned = <<>>
    /\ readSeen = FALSE
    /\ writeAfterRead = FALSE
    /\ drainWrite = FALSE
    /\ offsetAtSpill = -1
    /\ eof = FALSE
    /\ twin = [b |-> New(MaxBytes + 1, middlewares), returned |-> <<>>]
    /\ writeTo = NoCall

Init == InitWith({TRUE})

\* the bytes of the next Write of length k
Data(k) == [i \in 1..k |-> handed + i]

WriteStep(k, o) ==
    /\ handed + k <= MaxBytes
    /\ \E r \in {Write(Cur(o), Data(k), o)} :
          /\ Commit(r.b)
          /\ handed' = handed + k
          /\ appended' = appended \o Take(Data(k), r.n)
          /\ writeAfterRead' = (writeAfterRead \/ (readSeen /\ k > 0))
          /\ drainWrite' = (drainWrite \/ (k > 0 /\ readStream.store # 0))
          /\ offsetAtSpill' = IF ~usingStorage /\ r.b.usingStorage THEN offset
                              ELSE offsetAtSpill
          /\ eof' = FALSE
          /\ UNCHANGED <<faulty, returned, readSeen>>

ReadStep(n, o) ==
    \E r \in {Read(Cur(o), n, o)} :
       /\ Commit(r.b)
       /\ returned' = returned \o r.bytes
       /\ readSeen' = TRUE
       /\ eof' = (r.err = "EOF")
       /\ UNCHANGED <<faulty, handed, appended, writeAfterRead, drainWrite,
                      offsetAtSpill>>

\* the store can only fail in a call that gets past the early return
DoWrite ==
    \E k \in 0..MaxChunk : \E o \in Oracles(faulty /\ k > 0, WriteFaults) :
        WriteStep(k, o) /\ UNCHANGED <<twin, writeTo>>

DoRead ==
    \E n \in 0..MaxRead : \E o \in Oracles(faulty /\ offset < size, ReadFaults) :
        ReadStep(n, o) /\ UNCHANGED <<twin, writeTo>>

DoBytes ==
    \E o \in Oracles(faulty /\ offset < size, ReadFaults) :
        \E r \in {Bytes(Cur(o), o)} :
           /\ Commit(r.b)
           /\ returned' = returned \o r.bytes
           /\ readSeen' = TRUE
           /\ eof' = FALSE
           /\ UNCHANGED <<faulty, handed, appended, writeAfterRead, drainWrite,
                          offsetAtSpill, twin, writeTo>>

\* a release step can only fail when there is something to release
HoldsHandle == writeStream.store # 0 \/ readStream.store # 0 \/ storageBackend # 0

DoReset ==
    /\ \E o \in Oracles(faulty /\ HoldsHandle, ReleaseFaults) : Commit(Reset(Cur(o)))
    /\ appended' = <<>>
    /\ returned' = <<>>
    /\ readSeen' = FALSE
    /\ writeAfterRead' = FALSE
    /\ drainWrite' = FALSE
    /\ offsetAtSpill' = -1
    /\ eof' = FALSE
    /\ UNCHANGED <<faulty, handed, twin, writeTo>>

DoClose ==
    \E o \in Oracles(faulty /\ HoldsHandle, ReleaseFaults) :
        \E r \in {Close(Cur(o))} :
           /\ Commit(r.b)
           /\ eof' = FALSE
           /\ UNCHANGED <<faulty, handed, appended, returned, readSeen,
                          writeAfterRead, drainWrite, offsetAtSpill, twin, writeTo>>

DoGrow ==
    \E n \in {0, 1} :
        /\ Commit(Grow(Cur(NoFault), n).b)
        /\ eof' = FALSE
        /\ UNCHANGED <<faulty, handed, appended, returned, readSeen, writeAfterRead,
                       drainWrite, offsetAtSpill, twin, writeTo>>

\* Truncate(n): of what was appended and of what was returned, the part below
\* the size and the offset Truncate leaves is kept.
DoTruncate ==
    \E n \in 0..(size + 1) :
        \E o \in Oracles(faulty /\ 0 < n /\ n <= size, WriteFaults \cup ReadFaults) :
        \E r \in {Truncate(Cur(o), n, o)} :
        LET done == (r.err = "nil")
        IN /\ Commit(r.b)
           /\ appended' = IF done THEN Take(appended, r.b.size) ELSE appended
           /\ returned' = IF done THEN Take(returned, r.b.offset) ELSE returned
           /\ readSeen' = IF done THEN (r.b.offset > 0) ELSE readSeen
           /\ writeAfterRead' = IF done THEN FALSE ELSE writeAfterRead
           /\ drainWrite' = IF done THEN FALSE ELSE drainWrite
           /\ offsetAtSpill' = IF ~done THEN offsetAtSpill
                               ELSE IF r.b.usingStorage THEN 0 ELSE -1
           /\ eof' = FALSE
           /\ UNCHANGED <<faulty, handed, twin, writeTo>>

Next == DoWrite \/ DoRead \/ DoBytes \/ DoTruncate \/ DoReset \/ DoClose \/ DoGrow

Spec == Init /\ [][Next]_vars

\* ---- the same operations on the buffer New builds without WithMiddleware ----
InitNoMiddleware == Init /\ middlewares = <<>>

SpecNoMiddleware == InitNoMiddleware /\ [][Next]_vars

\* ---- writes and reads alone, no faults, beside a twin that never spills ----
InitWR == InitWith({FALSE})

WriteBoth ==
    \E k \in 0..MaxChunk :
        /\ WriteStep(k, NoFault)
        /\ twin' = [twin EXCEPT !.b = Fresh(Write(twin.b, Data(k), NoFault).b)]
        /\ UNCHANGED writeTo

ReadBoth ==
    \E n \in 0..MaxRead :
        /\ ReadStep(n, NoFault)
        /\ LET r == Read(twin.b, n, NoFault)
           IN twin' = [b |-> Fresh(r.b), returned |-> twin.returned \o r.bytes]
        /\ UNCHANGED writeTo

NextWR == WriteBoth \/ ReadBoth

SpecWR == InitWR /\ [][NextWR]_vars

\* ---- WriteTo(w) into a writer that accepts every write, step by step ----
\* len(data) of the slice WriteTo reads into
WriteToLen == 512

\* the call begins: n is 0; Len() at this point is kept for the comparison
WriteToCall ==
    /\ writeTo.pc = "idle"
    /\ writeTo' = [pc |-> "loop", n |-> 0, err |-> "nil", before |-> size - offset]
    /\ UNCHANGED <<bufVars, obsVars, twin>>

\* one pass of the for loop: Read; an error other than io.EOF returns it; the
\* bytes read go to w, which takes them all; io.EOF returns (n, nil).  A panic
\* in Read ends the program.
WriteToLoop ==
    /\ writeTo.pc = "loop"
    /\ \E o \in Oracles(faulty /\ offset < size, ReadFaults) :
          /\ ReadStep(WriteToLen, o)
          /\ \E r \in {Read(Cur(o), WriteToLen, o)} :
                writeTo' =
                    IF r.err = "panic" THEN [writeTo EXCEPT !.pc = "panicked"]
                    ELSE IF r.err = "error"
                    THEN [writeTo EXCEPT !.pc = "returned", !.err = "error"]
                    ELSE [writeTo EXCEPT
                            !.n = @ + Len(r.bytes),
                            !.pc = IF r.err = "EOF" THEN "returned" ELSE "loop"]
    /\ UNCHANGED twin

\* the caller has the result and goes on
WriteToReturn ==
    /\ writeTo.pc = "returned"
    /\ writeTo' = NoCall
    /\ UNCHANGED <<bufVars, obsVars, twin>>

NextWriteTo ==
    \/ writeTo.pc = "idle" /\ Next
    \/ WriteToCall
    \/ WriteToLoop
    \/ WriteToReturn

\* a call that has begun keeps running: the loop takes its next pass
SpecWriteTo == Init /\ [][NextWriteTo]_vars /\ WF_vars(WriteToLoop)

\* once a Read has signalled end-of-stream, `returned` equals `appended`
DrainedWhenEOF == eof => returned = appended

OpenEvents(c) == {i \in DOMAIN c : c[i].op = "Open"}
CreateEvents(c) == {i \in DOMAIN c : c[i].op = "Create"}

\* ---- properties ----

\* C1: with an empty pipeline and a fault-free store, whatever the threshold and
\* however the bytes were split into Writes made before the first Read, the
\* Reads return the appended bytes in order, and when a Read signals
\* end-of-stream all of them have been returned, spilled or not.
C1_RoundTrip ==
    (middlewares = <<>> /\ ~writeAfterRead) =>
        (IsPrefix(returned, appended) /\ DrainedWhenEOF)

C1_Witness ==
    /\ middlewares = <<>>
    /\ ~writeAfterRead
    /\ usingStorage
    /\ Len(memoryBuffer) > 0
    /\ Len(appended) = MaxBytes
    /\ eof
    /\ returned = appended

\* C2: whatever the interleaving of Writes and Reads, the bytes returned so far
\* are a prefix of the bytes appended so far (stated for the empty pipeline).
C2_ReturnedIsPrefix ==
    middlewares = <<>> => IsPrefix(returned, appended)

\* C3: when k > 0 bytes were consumed in memory mode before the spill, the bytes
\* returned after the spill are the appended bytes from position k on, and at
\* end-of-stream none is missing.
C3_PositionSurvivesSpill ==
    (middlewares = <<>> /\ usingStorage /\ offsetAtSpill > 0 /\ ~drainWrite) =>
        /\ Len(returned) >= offsetAtSpill
        /\ Len(returned) <= Len(appended)
        /\ SubSeq(returned, offsetAtSpill + 1, Len(returned))
             = SubSeq(appended, offsetAtSpill + 1, Len(returned))
        /\ DrainedWhenEOF

\* C4: a Read calls Open only in spill mode, with no write stream live, on a
\* backend on which Create was called before.
C4_OpenAfterCreate ==
    \A n \in 0..MaxRead : \A o \in Oracles(faulty, ReadFaults) :
        LET c == Read(Cur(o), n, o).b.calls
        IN \A i \in OpenEvents(c) :
               c[i].created /\ ~c[i].wsLive /\ c[i].spill

\* C5: the write stream and the read stream are never both present.
C5_StreamsExclusive ==
    ~(writeStream.store # 0 /\ readStream.store # 0)

\* C6: in spill mode with the read stream open, a Write of non-empty data fails,
\* leaves size and the backends as they are, and does not call Create.
C6_DrainWriteRejected ==
    (usingStorage /\ readStream.store # 0) =>
        \A k \in 1..MaxChunk : \A o \in Oracles(faulty, WriteFaults) :
            LET r == Write(Cur(o), Data(k), o)
            IN /\ r.err = "error"
               /\ r.b.size = size
               /\ r.b.stores = stores
               /\ CreateEvents(r.b.calls) = {}

\* C7: for every pipeline of lossless transforms, bytes appended past the
\* threshold and then consumed come back identical.
C7_PipelineRoundTrip ==
    (usingStorage /\ ~writeAfterRead) =>
        (IsPrefix(returned, appended) /\ DrainedWhenEOF)

\* C8: the write stream is T1.Writer(T2.Writer(... Tn.Writer(storeWriter))):
\* the first middleware is the outermost layer.
C8_WriterNesting ==
    writeStream.store # 0 => writeStream.layers = middlewares

C10_ThresholdNeutral ==
    (threshold = 1 /\ ~writeAfterRead) =>
        /\ returned = twin.returned
        /\ size - offset = twin.b.size - twin.b.offset

\* C11: a Write in memory mode leaves the buffer in spill mode only if the
\* memory length plus len(data) is strictly greater than the threshold, and,
\* when the store does not fail, whenever it is; a Write that fits (up to and
\* including exactly the threshold) stays in memory and does not ask the
\* provider for a store.
C11_SpillIffAboveThreshold ==
    ~usingStorage =>
        \A k \in 0..MaxChunk : \A o \in Oracles(faulty, WriteFaults) :
            \A r \in {Write(Cur(o), Data(k), o)} :
            LET above == k > 0 /\ Len(memoryBuffer) + k > threshold
            IN /\ r.b.usingStorage => above
               /\ (above /\ o = NoFault) => r.b.usingStorage
               /\ ~above => /\ r.b.stores = stores
                            /\ r.b.storageBackend = storageBackend
                            /\ r.b.memoryBuffer = memoryBuffer \o Data(k)

\* a Write has filled the memory to exactly the threshold: no store was asked for
C11_Witness ==
    /\ ~usingStorage
    /\ threshold >= 2
    /\ Len(memoryBuffer) = threshold
    /\ size = threshold
    /\ stores = <<>>

\* C12: when the transition to the store fails (Create fails, or the copy of
\* the memory prefix into the write stream fails), the triggering Write
\* returns an error with 0 bytes written and leaves size, offset, the memory
\* content and the mode (memory) as they were; a later Write that fits within
\* the threshold then succeeds in memory mode, and the bytes that were
\* readable before are still read back, followed by the new ones.
C12_FailedTransitionKeepsMemory ==
    ~usingStorage =>
        \A k \in 1..MaxChunk : \A o \in Oracles(faulty, WriteFaults) :
            (/\ Len(memoryBuffer) + k > threshold
             /\ flushToStorage(Cur(o), o).err # "nil") =>
                \A r \in {Write(Cur(o), Data(k), o)} :
                   /\ r.err = "error"
                   /\ r.n = 0
                   /\ r.b.size = size
                   /\ r.b.offset = offset
                   /\ r.b.memoryBuffer = memoryBuffer
                   /\ ~r.b.usingStorage
                   /\ \A j \in 1..MaxChunk :
                        Len(memoryBuffer) + j <= threshold =>
                            LET later == [i \in 1..j |-> handed + k + i]
                            IN \A w \in {Write(Fresh(r.b), later, NoFault)} :
                               /\ w.err = "nil"
                               /\ w.n = j
                               /\ ~w.b.usingStorage
                               /\ w.b.size = size + j
                               /\ w.b.memoryBuffer = memoryBuffer \o later
                               /\ offset <= size =>
                                    Bytes(Fresh(w.b), NoFault).bytes =
                                        SubSeq(memoryBuffer \o later,
                                               offset + 1, size + j)

\* the state a failed transition leaves (memory mode, a store obtained and
\* Create called on it), the memory filled to the threshold and all of it read back
C12_Witness ==
    /\ ~usingStorage
    /\ storageBackend # 0
    /\ writeStream.store = 0
    /\ stores[storageBackend].createCalled
    /\ Len(memoryBuffer) = 2
    /\ threshold = 2
    /\ returned = memoryBuffer

\* C13: when the write stream of a spill-mode Write accepts only part of the
\* data (r.n of len(data) bytes, with an error), Write returns r.n with the
\* error and size grows by exactly r.n.
C13_SizeCountsAcknowledged ==
    usingStorage =>
        \A k \in 1..MaxChunk : \A o \in Oracles(faulty, WriteFaults) :
            LET r == Write(Cur(o), Data(k), o)
            IN (r.err = "error" /\ r.n > 0) => r.b.size = size + r.n

\* C14: after every operation, failed ones included, 0 <= offset <= size, so
\* that Len() is never negative.
C14_OffsetWithinSize == 0 <= offset /\ offset <= size

\* C15: whenever the buffer is in memory mode, the state left by a failed
\* transition included, there is no store handle, no write stream and no read
\* stream.
C15_MemoryModeHoldsNoStore ==
    ~usingStorage =>
        (storageBackend = 0 /\ writeStream.store = 0 /\ readStream.store = 0)

\* C16: whenever the buffer is in spill mode, the state left by Close
\* included, the store handle is present.
C16_SpillModeHoldsStore == usingStorage => storageBackend # 0

\* C17: size never decreases across Write, Read, Bytes, Grow or Close, whether
\* the call succeeds or fails; only Reset and Truncate lower it.
C17_SizeNeverDecreases ==
    /\ \A k \in 0..MaxChunk : \A o \in Oracles(faulty, WriteFaults) :
          Write(Cur(o), Data(k), o).b.size >= size
    /\ \A n \in 0..MaxRead : \A o \in Oracles(faulty, ReadFaults) :
          Read(Cur(o), n, o).b.size >= size
    /\ \A o \in Oracles(faulty, ReadFaults) : Bytes(Cur(o), o).b.size >= size
    /\ \A n \in -1..MaxChunk : Grow(Cur(NoFault), n).b.size >= size
    /\ Close(Cur(NoFault)).b.size >= size

\* Close and Read have acted on a spilled buffer and every appended byte still counts
C17_Witness ==
    /\ usingStorage
    /\ storageBackend = 0
    /\ offset > 0
    /\ size = MaxBytes

\* C18: after Truncate(n) with 0 <= n <= size, in memory mode or in spill mode
\* and whatever was consumed before, Size() is n and the content, read from
\* byte 0, is the first n bytes of the content before the call.
C18_TruncateKeepsFirstN ==
    \A n \in 0..size :
        LET t == Truncate(Cur(NoFault), n, NoFault)
        IN /\ t.err = "nil"
           /\ t.b.size = n
           /\ Bytes([Fresh(t.b) EXCEPT !.offset = 0], NoFault).bytes =
                  Take(appended, n)

\* C19: after Truncate(n) with 0 < n <= size, offset is min(old offset, n); in
\* particular with old offset >= n nothing is left to read (Len() = 0) and the
\* bytes already consumed are not read again.
C19_TruncateKeepsOffset ==
    \A n \in 1..size :
        LET t == Truncate(Cur(NoFault), n, NoFault)
        IN t.b.offset = Min(offset, n)

\* C20: Truncate(n) with n < 0 or n > size panics (out of range) and leaves
\* size, offset, the mode, the content and the store and stream handles as
\* they were.
C20_TruncateOutOfRange ==
    \A n \in {-1, size + 1, size + 2} :
        \A o \in Oracles(faulty, WriteFaults \cup ReadFaults) :
            \A t \in {Truncate(Cur(o), n, o)} :
               /\ t.err = "panic"
               /\ t.b.size = size
               /\ t.b.offset = offset
               /\ t.b.usingStorage = usingStorage
               /\ t.b.memoryBuffer = memoryBuffer
               /\ t.b.stores = stores
               /\ t.b.storageBackend = storageBackend
               /\ t.b.writeStream = writeStream
               /\ t.b.readStream = readStream
               /\ t.b.calls = <<>>

\* a spilled buffer in its drain phase, part of it consumed, on which
\* Truncate(size + 1) panics
C20_Witness ==
    /\ usingStorage
    /\ readStream.store # 0
    /\ 0 < offset
    /\ offset < size
    /\ Truncate(Cur(NoFault), size + 1, NoFault).err = "panic"

\* the fields of hybridBuffer, without the backends and the bookkeeping of a call
Fields(b) ==
    <<b.threshold, b.size, b.offset, b.memoryBuffer, b.storageBackend,
      b.writeStream, b.readStream, b.middlewares, b.usingStorage>>

\* C21: after Reset or Truncate(0), from any reachable state and whatever
\* release step fails, size = 0, offset = 0, the mode is memory, the store and
\* both streams are absent (every field is as New left it), and a Write
\* followed by reading everything back gives what it gives on a fresh buffer
\* of the same configuration.
C21_ResetRestoresInitial ==
    LET fresh == New(threshold, middlewares)
        after == {Fresh(Reset(Cur(o))) :
                      o \in Oracles(faulty /\ HoldsHandle, ReleaseFaults)}
                 \cup {Fresh(Truncate(Cur(NoFault), 0, NoFault).b)}
    IN \A r \in after :
          /\ Fields(r) = Fields(fresh)
          /\ \A k \in 1..MaxChunk :
                \A w \in {Write(r, Data(k), NoFault)} :
                \A v \in {Write(fresh, Data(k), NoFault)} :
                   /\ w.n = v.n
                   /\ w.err = v.err
                   /\ w.b.size = v.b.size
                   /\ w.b.usingStorage = v.b.usingStorage
                   /\ Bytes(Fresh(w.b), NoFault).bytes =
                          Bytes(Fresh(v.b), NoFault).bytes

\* a buffer that had spilled and was then reset: its store was removed and
\* the buffer is as new
C21_Witness ==
    /\ ~usingStorage
    /\ size = 0
    /\ offset = 0
    /\ storageBackend = 0
    /\ writeStream.store = 0
    /\ readStream.store = 0
    /\ Len(stores) > 0
    /\ stores[1].removeCalled
    /\ stores[1].openCalled

\* C22: when more than one release step of Close fails, Close returns the
\* error of the first step that failed (closing the write stream, then closing
\* the read stream, then removing the store).
C22_CloseReturnsFirstError ==
    \A o \in Oracles(faulty, ReleaseFaults) :
        LET firstErr == IF writeStream.store # 0 /\ o.closeWriteErr THEN "closeWrite"
                        ELSE IF readStream.store # 0 /\ o.closeReadErr THEN "closeRead"
                        ELSE IF storageBackend # 0 /\ o.removeErr THEN "remove"
                        ELSE "nil"
        IN Close(Cur(o)).err = firstErr

\* the calls the release steps make, in order: close the write stream if there
\* is one, close the read stream if there is one, remove the store if there is one
ReleaseCalls ==
    (IF writeStream.store # 0 THEN <<<<"CloseWriter", writeStream.store>>>> ELSE <<>>)
    \o (IF readStream.store # 0 THEN <<<<"CloseReader", readStream.store>>>> ELSE <<>>)
    \o (IF storageBackend # 0 THEN <<<<"Remove", storageBackend>>>> ELSE <<>>)

CallsOf(b) == [i \in DOMAIN b.calls |-> <<b.calls[i].op, b.calls[i].store>>]

\* C23: Close and Reset attempt every release step (close the write stream,
\* close the read stream, remove the store) whichever of them fail, and leave
\* the buffer without write stream, read stream and store handle.
C23_ReleaseIsComplete ==
    \A o \in Oracles(faulty /\ HoldsHandle, ReleaseFaults) :
        \A r \in {Close(Cur(o)).b, Reset(Cur(o))} :
            /\ CallsOf(r) = ReleaseCalls
            /\ r.writeStream = NoStream
            /\ r.readStream = NoStream
            /\ r.storageBackend = 0

\* a spilled buffer, its write stream open, on which Close releases the stream
\* and the store although both steps fail
C23_Witness ==
    /\ faulty
    /\ usingStorage
    /\ writeStream.store # 0
    /\ storageBackend # 0
    /\ \E o \in ReleaseFaults :
          /\ o.closeWriteErr /\ o.removeErr
          /\ Close(Cur(o)).err # "nil"
          /\ Close(Cur(o)).b.storageBackend = 0
          /\ Len(Close(Cur(o)).b.calls) = 2

\* C24: a second Close directly after a Close closes no stream, removes no
\* store, returns no error and leaves the buffer as the first Close left it,
\* whatever the store would answer.
C24_CloseIdempotent ==
    \A c \in {Fresh(Close(Cur(o)).b) :
                  o \in Oracles(faulty /\ HoldsHandle, ReleaseFaults)} :
        \A o \in Oracles(faulty, ReleaseFaults) :
            \A d \in {Close([c EXCEPT !.faults = o])} :
                /\ d.err = "nil"
                /\ d.b.calls = <<>>
                /\ Fields(d.b) = Fields(c)
                /\ d.b.stores = c.stores

\* a spilled buffer that was closed before anything was read: the store is
\* removed, and one more Close makes no call
C24_Witness ==
    /\ usingStorage
    /\ storageBackend = 0
    /\ writeStream.store = 0
    /\ readStream.store = 0
    /\ offset = 0
    /\ size > 0
    /\ stores[Len(stores)].removeCalled
    /\ Close(Cur(NoFault)).b.calls = <<>>

\* C25: when closing the write stream fails while Read finalizes it before
\* draining, Read returns that error instead of dropping it and going on to
\* open the read stream.
C25_ReadReportsCloseError ==
    (faulty /\ writeStream.store # 0 /\ offset < size) =>
        \A n \in 0..MaxRead :
            \A r \in {Read(Cur([NoFault EXCEPT !.closeWriteErr = TRUE]), n,
                           [NoFault EXCEPT !.closeWriteErr = TRUE])} :
                /\ r.err \notin {"nil", "EOF"}
                /\ \A i \in DOMAIN r.b.calls : r.b.calls[i].op # "Open"

\* C26: Read signals end-of-stream exactly when offset = size at the time of
\* the call, and then returns no byte and changes nothing; a Read that
\* returns bytes does not signal end-of-stream, and end-of-stream is never
\* signalled while offset < size.
C26_EOFOnlyWhenDrained ==
    \A n \in 0..MaxRead :
        \A r \in {Read(Cur(NoFault), n, NoFault)} :
            /\ (r.err = "EOF") <=> (offset = size)
            /\ (r.err = "EOF") => (r.bytes = <<>> /\ Fields(r.b) = Fields(Cur(NoFault)))
            /\ Len(r.bytes) > 0 => r.err # "EOF"

\* C27: between construction (or the last Reset) and the next Reset the
\* provider is asked for a store at most once: once the buffer holds a store,
\* no Write asks for another, not even the retry of a failed transition.
C27_ProviderCalledOnce ==
    storageBackend # 0 =>
        \A k \in 1..MaxChunk : \A o \in Oracles(faulty, WriteFaults) :
            \A r \in {Write(Cur(o), Data(k), o)} :
                /\ Len(r.b.stores) = Len(stores)
                /\ \A i \in DOMAIN r.b.calls : r.b.calls[i].op # "Provider"

\* C28: Available() is threshold minus the memory length, which is size, in
\* memory mode, and 0 in spill mode; it is never negative.
C28_Available ==
    \A a \in {Available(Cur(NoFault))} :
        /\ ~usingStorage => (a = threshold - size /\ Len(memoryBuffer) = size)
        /\ usingStorage => a = 0
        /\ a >= 0

\* a buffer that spilled with part of its bytes still in the memory buffer
C28_Witness ==
    /\ usingStorage
    /\ Len(memoryBuffer) > 0
    /\ Len(memoryBuffer) < threshold
    /\ Available(Cur(NoFault)) = 0

\* C29: Write with empty data returns (0, nil) and changes nothing: size,
\* offset and mode stay, no transition happens, the provider is not called and
\* no write stream is opened, also in spill mode after the write stream was
\* finalized; the buffer makes no call at all.
C29_EmptyWriteIsNoOp ==
    \A o \in Oracles(faulty, WriteFaults) :
        Write(Cur(o), <<>>, o) = [b |-> Cur(o), n |-> 0, err |-> "nil"]

\* a spilled buffer whose write stream was finalized by a Read, on which an
\* empty Write opens nothing
C29_Witness ==
    /\ usingStorage
    /\ storageBackend # 0
    /\ writeStream.store = 0
    /\ readStream.store # 0
    /\ Write(Cur(NoFault), <<>>, NoFault).b.writeStream.store = 0
    /\ Write(Cur(NoFault), <<>>, NoFault).n = 0

\* C30: Bytes() returns all size - offset unread bytes in one call and leaves
\* Len() = 0, so that a Bytes() right after it returns nothing; in memory mode
\* and in spill mode.
C30_BytesDrains ==
    \A r \in {Bytes(Cur(NoFault), NoFault)} :
        /\ r.bytes = SubSeq(appended, offset + 1, size)
        /\ r.b.size - r.b.offset = 0
        /\ Bytes(Fresh(r.b), NoFault).bytes = <<>>

\* C31: a buffer in spill mode is still in spill mode after every Write, Read,
\* Bytes, Grow and Close, whatever the store answers and whether the call
\* succeeds, fails or panics; only Reset and Truncate return it to memory mode.
C31_ModeOnlyAdvances ==
    usingStorage =>
        /\ \A k \in 0..MaxChunk : \A o \in Oracles(faulty, WriteFaults) :
              Write(Cur(o), Data(k), o).b.usingStorage
        /\ \A n \in 0..MaxRead : \A o \in Oracles(faulty, ReadFaults) :
              Read(Cur(o), n, o).b.usingStorage
        /\ \A o \in Oracles(faulty, ReadFaults) : Bytes(Cur(o), o).b.usingStorage
        /\ \A n \in -1..MaxChunk : Grow(Cur(NoFault), n).b.usingStorage
        /\ \A o \in Oracles(faulty /\ HoldsHandle, ReleaseFaults) :
              Close(Cur(o)).b.usingStorage

\* a spilled buffer whose store took a byte that a failed Write did not
\* acknowledge: the failed Write left it in spill mode
C31_Witness ==
    /\ usingStorage
    /\ storageBackend # 0
    /\ Len(stores[storageBackend].data) > size
    /\ Write(Cur([NoFault EXCEPT !.budget = 0]), Data(1),
             [NoFault EXCEPT !.budget = 0]).err = "error"

\* C32: in memory mode, the state a failed transition leaves included, a Write
\* that fits within the threshold and any Read make no call on a store or on
\* a stream: no Create, Open, Remove, no stream Write, Read or Close.
C32_MemoryModeNoIO ==
    ~usingStorage =>
        /\ \A k \in 0..MaxChunk : \A o \in Oracles(faulty, WriteFaults) :
              (k = 0 \/ Len(memoryBuffer) + k <= threshold) =>
                  Write(Cur(o), Data(k), o).b.calls = <<>>
        /\ \A n \in 0..MaxRead : \A o \in Oracles(faulty, ReadFaults) :
              Read(Cur(o), n, o).b.calls = <<>>

\* what the store behind the write stream of `after` took during a call that
\* began in `before`: from position 0 if the call created the stream, from the
\* stream's position otherwise
Received(before, after) ==
    LET s == after.writeStream.store
        from == IF \E i \in DOMAIN after.calls :
                       after.calls[i].op = "Create" /\ after.calls[i].store = s
                THEN 0
                ELSE before.stores[s].writePos
    IN SubSeq(after.stores[s].data, from + 1, after.stores[s].writePos)

\* C33: when a Write in memory mode triggers the transition, the write stream
\* takes the memory prefix from byte 0 first and the bytes of the Write after
\* it (a failing stream takes a prefix of that sequence); the buffer is in
\* spill mode afterwards only if the whole memory prefix went through, and the
\* bytes of the triggering Write are never put into the memory buffer.
C33_PrefixBeforeTrigger ==
    ~usingStorage =>
        \A k \in 1..MaxChunk : \A o \in Oracles(faulty, WriteFaults) :
            Len(memoryBuffer) + k > threshold =>
                \A r \in {Write(Cur(o), Data(k), o)} :
                LET all == memoryBuffer \o Data(k)
                    sent == Take(all, o.budget)
                IN /\ r.b.memoryBuffer = memoryBuffer
                   /\ r.b.writeStream.store # 0 =>
                         Received(Cur(o), r.b) =
                            [i \in 1..Len(sent) |->
                                EncodeThrough(r.b.writeStream.layers, sent[i])]
                   /\ r.b.usingStorage =>
                         /\ r.b.writeStream.store # 0
                         /\ Len(Received(Cur(o), r.b)) >= Len(memoryBuffer)
                   /\ o = NoFault =>
                         /\ r.b.usingStorage
                         /\ r.err = "nil"
                         /\ Len(Received(Cur(o), r.b)) = Len(all)

\* a buffer that spilled with bytes in memory: its store holds the memory
\* prefix followed by the bytes of the Write that triggered the transition
C33_Witness ==
    /\ usingStorage
    /\ writeStream.store # 0
    /\ Len(memoryBuffer) > 0
    /\ Len(stores[writeStream.store].data) > Len(memoryBuffer)
    /\ Take(stores[writeStream.store].data, Len(memoryBuffer)) =
           [i \in 1..Len(memoryBuffer) |->
               EncodeThrough(writeStream.layers, memoryBuffer[i])]

\* C34: in the state a transition that failed while copying the memory prefix
\* leaves (memory mode, the write stream open), a Write that retries the
\* transition with success leaves a blob that holds the memory prefix once,
\* followed by its own bytes, and reading to the end returns exactly the
\* unread appended bytes, through a read stream opened on the store the bytes
\* were written to.
C34_RetriedTransition ==
    (~usingStorage /\ writeStream.store # 0) =>
        \A k \in 1..MaxChunk :
            Len(memoryBuffer) + k > threshold =>
                \A w \in {Write(Cur(NoFault), Data(k), NoFault)} :
                    w.err = "nil" =>
                        LET all == memoryBuffer \o Data(k)
                            ws == w.b.writeStream
                        IN /\ w.b.stores[ws.store].data =
                                 [i \in 1..Len(all) |->
                                     EncodeThrough(ws.layers, all[i])]
                           /\ \A r \in {Bytes(Fresh(w.b), NoFault)} :
                                 /\ r.b.readStream.store = ws.store
                                 /\ r.bytes = SubSeq(all, offset + 1, Len(all))

\* C35: every store the provider has returned is either the one the buffer
\* holds in storageBackend or one on which Remove was called: no store handle
\* is overwritten or forgotten without the store being removed.
C35_NoStoreLeaked ==
    \A i \in DOMAIN stores : i # storageBackend => stores[i].removeCalled

\* the call of position i in the log c is a Create on a store that was already
\* created or opened before the operation, or created earlier in it
CreateAgain(c, i) ==
    /\ c[i].op = "Create"
    /\ \/ /\ c[i].store \in DOMAIN stores
          /\ stores[c[i].store].createCalled \/ stores[c[i].store].openCalled
       \/ \E j \in 1..(i - 1) : c[j].op = "Create" /\ c[j].store = c[i].store

\* C36: no Write and no Truncate calls Create on a store on which Create was
\* already called (so none whose writer was closed) or on which a reader was
\* opened: Create is called at most once on any store.
C36_CreateOnce ==
    /\ \A k \in 0..MaxChunk : \A o \in Oracles(faulty, WriteFaults) :
          \A c \in {Write(Cur(o), Data(k), o).b.calls} :
              \A i \in DOMAIN c : ~CreateAgain(c, i)
    /\ \A n \in 0..size : \A o \in Oracles(faulty, WriteFaults \cup ReadFaults) :
          \A c \in {Truncate(Cur(o), n, o).b.calls} :
              \A i \in DOMAIN c : ~CreateAgain(c, i)

\* C37: on a spilled buffer that was closed (spill mode, no store handle), a
\* Write of non-empty data and a Read with unread bytes left return a result
\* or an error: neither calls Create or Open on the nil store handle, which
\* panics.
C37_NoUseOfAbsentStore ==
    (usingStorage /\ storageBackend = 0) =>
        /\ \A k \in 1..MaxChunk : \A o \in Oracles(faulty, WriteFaults) :
              Write(Cur(o), Data(k), o).err # "panic"
        /\ \A n \in 0..MaxRead : \A o \in Oracles(faulty, ReadFaults) :
              offset < size => Read(Cur(o), n, o).err # "panic"

\* C38: WriteTo into a writer that accepts every write, over the mock store
\* (whose reader returns a byte, end-of-stream or an error on each call),
\* returns from every reachable buffer state, and when it returns without
\* error Len() is 0 and the count it reports is Len() before the call.
C38_WriteToTerminates ==
    /\ (writeTo.pc = "loop") ~> (writeTo.pc = "returned")
    /\ [](writeTo.pc = "returned" /\ writeTo.err = "nil" =>
              size - offset = 0 /\ writeTo.n = writeTo.before)

====
